---- MODULE Spec2Model ----
(***************************************************************************)
(* Model of controller/client/monitor_client.go: the monitoring decorators *)
(* monitorClient, monitorCache and monitorStatusWriter, and the timer      *)
(* monitor() they share.                                                   *)
(*                                                                         *)
(* A call through a decorator is modelled in the steps its code takes:     *)
(*   started    cb := monitor(verb, obj); defer cb()                       *)
(*   delegated  the wrapped method has been invoked                        *)
(*   unwinding  the wrapped method has returned or panicked                *)
(* and the deferred callback then runs and ends the call.                  *)
(***************************************************************************)
EXTENDS Integers, Sequences, FiniteSets, TLC

\* ---------------------------------------------------------------- bounds
MaxCalls == 2       \* calls made in one behaviour
MaxInFlight == 2    \* calls running at the same time
MaxTime == 1        \* readings of the clock: 0..MaxTime
MaxWriters == 1     \* status writers obtained through Status()

\* ---------------------------------------------------------------- values
Nil == "nil"

\* The object arguments: a typed Pod, an unstructured object and a typed
\* list of a custom resource.  Nil is the nil interface value.
Objects == {"pod", "ustr", "crList"}
SingleObjects == {"pod", "ustr"}
ListObjects == {"crList"}

EmptyGV == [group |-> "", version |-> ""]

\* The group/version the scheme registers for the object's type.
RegisteredGV(o) ==
    CASE o = "pod" -> [group |-> "", version |-> "v1"]
      [] o = "ustr" -> [group |-> "apps", version |-> "v1"]
      [] o = "crList" -> [group |-> "example.io", version |-> "v1"]

\* What the wrapped method hands back: nil, an error value, or a panic.
Errors == {"conflict", "canceled"}
Results == {Nil} \cup Errors
PanicWrapped == "panic: wrapped"
PanicNilDeref == "panic: nil pointer dereference"

Controllers == {"application"}

VARIABLES
    calls,      \* slot -> the call running in it, or Idle
    gvk,        \* object -> the group/version its TypeMeta holds now
    sink,       \* the observations written to controllerClientRequestLatency
    wlog,       \* the invocations the wrapped client, cache and writer received
    now,        \* the clock
    started,    \* number of calls entered so far
    returned,   \* number of calls that returned to their caller
    panicked,   \* number of calls that ended in a panic
    writers,    \* number of monitorStatusWriter values handed out
    last        \* the call that ended most recently, or Idle

vars == <<calls, gvk, sink, wlog, now, started, returned, panicked, writers, last>>

Slots == 1..MaxInFlight

Idle == [pc |-> "idle"]

\* ------------------------------------------------------- label derivation

\* schema.GroupVersion.String(): "<group>/<version>", or the version alone
\* when the group is empty.
GVString(gv) ==
    IF gv.group # "" THEN gv.group \o "/" \o gv.version ELSE gv.version

\* k8s.GetKindForObject(obj, true): the resource's kind; for a list, the kind
\* of its elements.
GetKindForObject(o) ==
    CASE o = "pod" -> "Pod"
      [] o = "ustr" -> "Deployment"
      [] o = "crList" -> "Widget"

\* k8s.IsUnstructuredObject(obj)
IsUnstructuredObject(o) == o = "ustr"

\* velaruntime.GetControllerInCaller(): found on the call stack, which is the
\* caller's for the whole call.
GetControllerInCaller(c) == c.controller

\* ------------------------------------------------------------------ timer

\* A timer whose start time is shared by all calls instead of being taken by
\* each call on entry.
monitorSharedBegin(verb, obj, t) == [verb |-> verb, obj |-> obj, begin |-> 0]

\* monitor(verb, obj): begin := time.Now(); the closure keeps verb, obj and
\* begin, and nothing else.
monitor(verb, obj, t) == [verb |-> verb, obj |-> obj, begin |-> t]

\* Labels resolved from the object as it was when the timer started.
LabelsAtEntry(c, g) ==
    [controller |-> GetControllerInCaller(c),
     verb |-> c.cb.verb,
     kind |-> GetKindForObject(c.cb.obj),
     apiVersion |-> GVString(c.entryGV),
     unstructured |-> IsUnstructuredObject(c.cb.obj)]

\* The label values the callback passes to WithLabelValues: it derives them
\* when it runs, from the object as it is then.
Labels(c, g) ==
    [controller |-> GetControllerInCaller(c),
     verb |-> c.cb.verb,
     kind |-> GetKindForObject(c.cb.obj),
     apiVersion |-> GVString(g[c.cb.obj]),
     unstructured |-> IsUnstructuredObject(c.cb.obj)]

\* time.Since(begin).Seconds()
Since(begin, t) == t - begin

\* obj.GetObjectKind() on a nil interface value is a nil pointer dereference.
CallbackPanics(c) == c.cb.obj = Nil

\* A callback that is called on the successful return only, not deferred.
RecordOnSuccessOnly(snk, c, g, t) ==
    IF CallbackPanics(c) \/ c.wres # Nil THEN snk
    ELSE Append(snk, [labels |-> Labels(c, g),
                      duration |-> Since(c.cb.begin, t),
                      call |-> c.id])

\* The callback's effect on the sink: one Observe, unless it panics while it
\* evaluates the label values.
Record(snk, c, g, t) ==
    IF CallbackPanics(c) THEN snk
    ELSE Append(snk, [labels |-> Labels(c, g),
                      duration |-> Since(c.cb.begin, t),
                      call |-> c.id])

\* ------------------------------------------------------------- operations

FreeSlots == {s \in Slots : calls[s].pc = "idle"}

\* Entry of a decorated method: cb := monitor(verb, obj); defer cb()
\* target and method name the wrapped method the body delegates to.
Enter(target, method, verb, obj) ==
    /\ started < MaxCalls
    /\ FreeSlots # {}
    /\ LET s == CHOOSE f \in FreeSlots : \A h \in FreeSlots : f <= h IN
       \E ctl \in Controllers :
         calls' = [calls EXCEPT ![s] =
                     [pc |-> "started", id |-> started + 1, target |-> target,
                      method |-> method, controller |-> ctl, arg |-> obj,
                      cb |-> monitor(verb, obj, now),
                      enteredAt |-> now,
                      entryGV |-> IF obj = Nil THEN EmptyGV ELSE gvk[obj],
                      wres |-> Nil]]
    /\ started' = started + 1
    /\ UNCHANGED <<gvk, sink, wlog, now, returned, panicked, writers, last>>

\* A cache read that reports the client's verb.
CacheGetAsGet ==
    \E o \in SingleObjects \cup {Nil} : Enter("cache", "Get", "Get", o)

CacheGet ==
    \E o \in SingleObjects \cup {Nil} : Enter("cache", "Get", "GetCache", o)

CacheList ==
    \E o \in ListObjects \cup {Nil} : Enter("cache", "List", "ListCache", o)

ClientGet ==
    \E o \in SingleObjects \cup {Nil} : Enter("client", "Get", "Get", o)

ClientList ==
    \E o \in ListObjects \cup {Nil} : Enter("client", "List", "List", o)

\* A Create that reports the verb of Update.
ClientCreateAsUpdate ==
    \E o \in SingleObjects \cup {Nil} : Enter("client", "Create", "Update", o)

ClientCreate ==
    \E o \in SingleObjects \cup {Nil} : Enter("client", "Create", "Create", o)

ClientDelete ==
    \E o \in SingleObjects \cup {Nil} : Enter("client", "Delete", "Delete", o)

ClientUpdate ==
    \E o \in SingleObjects \cup {Nil} : Enter("client", "Update", "Update", o)

ClientPatch ==
    \E o \in SingleObjects \cup {Nil} : Enter("client", "Patch", "Patch", o)

ClientDeleteAllOf ==
    \E o \in SingleObjects \cup {Nil} :
       Enter("client", "DeleteAllOf", "DeleteAllOf", o)

\* monitorClient.Status(): wraps the wrapped client's status writer.
ClientStatus ==
    /\ writers < MaxWriters
    /\ writers' = writers + 1
    /\ UNCHANGED <<calls, gvk, sink, wlog, now, started, returned, panicked, last>>

StatusUpdate ==
    /\ writers > 0
    /\ \E o \in SingleObjects \cup {Nil} :
          Enter("status", "Update", "StatusUpdate", o)

StatusPatch ==
    /\ writers > 0
    /\ \E o \in SingleObjects \cup {Nil} :
          Enter("status", "Patch", "StatusPatch", o)

\* monitor(verb, obj)() in place of defer: the callback runs, and the
\* Observation is written, before the wrapped method is entered.
DelegateAfterCallback(s) ==
    /\ calls[s].pc = "started"
    /\ calls' = [calls EXCEPT ![s].pc = "delegated"]
    /\ sink' = Record(sink, calls[s], gvk, now)
    /\ wlog' = Append(wlog, [call |-> calls[s].id, target |-> calls[s].target,
                             method |-> calls[s].method, obj |-> calls[s].arg])
    /\ UNCHANGED <<gvk, now, started, returned, panicked, writers, last>>

\* return c.Client.X(ctx, obj, ...): the wrapped method is entered with the
\* caller's argument.
Delegate(s) ==
    /\ calls[s].pc = "started"
    /\ calls' = [calls EXCEPT ![s].pc = "delegated"]
    /\ wlog' = Append(wlog, [call |-> calls[s].id, target |-> calls[s].target,
                             method |-> calls[s].method, obj |-> calls[s].arg])
    /\ UNCHANGED <<gvk, sink, now, started, returned, panicked, writers, last>>

\* The wrapped method returns nil or an error.  It may have written the
\* TypeMeta of a typed object: filled it in, or cleared it.
WrappedReturn(s) ==
    /\ calls[s].pc = "delegated"
    /\ \E r \in Results :
         calls' = [calls EXCEPT ![s].pc = "unwinding", ![s].wres = r]
    /\ \/ UNCHANGED gvk
       \/ /\ calls[s].arg \in {"pod", "crList"}
          /\ \E g \in {EmptyGV, RegisteredGV(calls[s].arg)} :
               /\ g # gvk[calls[s].arg]
               /\ gvk' = [gvk EXCEPT ![calls[s].arg] = g]
    /\ UNCHANGED <<sink, wlog, now, started, returned, panicked, writers, last>>

\* The wrapped method panics.
WrappedPanic(s) ==
    /\ calls[s].pc = "delegated"
    /\ calls' = [calls EXCEPT ![s].pc = "unwinding", ![s].wres = PanicWrapped]
    /\ UNCHANGED <<gvk, sink, wlog, now, started, returned, panicked, writers, last>>

\* What the caller gets once the deferred callback has run: the wrapped
\* method's result or panic, unless the callback itself panics.
Outcome(c) ==
    IF CallbackPanics(c) THEN PanicNilDeref ELSE c.wres

\* The deferred cb() runs and the call ends: it returns the wrapped result,
\* or goes on panicking.
Complete(s) ==
    /\ calls[s].pc = "unwinding"
    /\ LET c == calls[s]
           out == Outcome(c)
       IN /\ sink' = Record(sink, c, gvk, now)
          /\ last' = [pc |-> "ended", id |-> c.id, target |-> c.target,
                      method |-> c.method, arg |-> c.arg,
                      wres |-> c.wres, out |-> out,
                      entryGV |-> c.entryGV,
                      exitGV |-> IF c.arg = Nil THEN EmptyGV ELSE gvk[c.arg]]
          /\ returned' = IF out \in Results THEN returned + 1 ELSE returned
          /\ panicked' = IF out \in Results THEN panicked ELSE panicked + 1
    /\ calls' = [calls EXCEPT ![s] = Idle]
    /\ UNCHANGED <<gvk, wlog, now, started, writers>>

\* Time passes.
Tick ==
    /\ now < MaxTime
    /\ now' = now + 1
    /\ UNCHANGED <<calls, gvk, sink, wlog, started, returned, panicked, writers, last>>

Init ==
    /\ calls = [s \in Slots |-> Idle]
    /\ gvk \in {g \in [Objects -> {EmptyGV} \cup {RegisteredGV(o) : o \in Objects}] :
                  /\ g["pod"] \in {EmptyGV, RegisteredGV("pod")}
                  /\ g["ustr"] = RegisteredGV("ustr")
                  /\ g["crList"] = RegisteredGV("crList")}
    /\ sink = <<>>
    /\ wlog = <<>>
    /\ now = 0
    /\ started = 0
    /\ returned = 0
    /\ panicked = 0
    /\ writers = 0
    /\ last = Idle

Next ==
    \/ CacheGet
    \/ CacheList
    \/ ClientGet
    \/ ClientList
    \/ ClientCreate
    \/ ClientDelete
    \/ ClientUpdate
    \/ ClientPatch
    \/ ClientDeleteAllOf
    \/ ClientStatus
    \/ StatusUpdate
    \/ StatusPatch
    \/ \E s \in Slots : Delegate(s)
    \/ \E s \in Slots : WrappedReturn(s)
    \/ \E s \in Slots : WrappedPanic(s)
    \/ \E s \in Slots : Complete(s)
    \/ Tick

Spec == Init /\ [][Next]_vars

\* ------------------------------------------------------------ properties

Ended == last.pc = "ended"

\* The observations written for a call, and the wrapped invocations made for it.
ObsOf(id) == {i \in DOMAIN sink : sink[i].call = id}
InvOf(id) == {k \in DOMAIN wlog : wlog[k].call = id}

\* The wrapped method a call was delegated to.
OpOf(id) ==
    LET k == CHOOSE j \in InvOf(id) : TRUE IN <<wlog[k].target, wlog[k].method>>

\* The fixed verb name of each operation.
FixedName(op) ==
    CASE op = <<"client", "Get">> -> "Get"
      [] op = <<"client", "List">> -> "List"
      [] op = <<"client", "Create">> -> "Create"
      [] op = <<"client", "Delete">> -> "Delete"
      [] op = <<"client", "Update">> -> "Update"
      [] op = <<"client", "Patch">> -> "Patch"
      [] op = <<"client", "DeleteAllOf">> -> "DeleteAllOf"
      [] op = <<"status", "Update">> -> "StatusUpdate"
      [] op = <<"status", "Patch">> -> "StatusPatch"
      [] op = <<"cache", "Get">> -> "GetCache"
      [] op = <<"cache", "List">> -> "ListCache"

\* C1: whatever the wrapped method hands back for a call (nil, an error, a
\* panic) is exactly what the caller of the decorated method gets.
C1_ResultsPassThrough ==
    Ended => last.out = last.wres

\* C2: a call that returned to its caller has written exactly one
\* Observation, no Observation has a negative duration, and as long as no
\* call has panicked the sink holds one Observation per returned call.
C2_OneObservationPerReturnedCall ==
    /\ (Ended /\ last.out \in Results) => Cardinality(ObsOf(last.id)) = 1
    /\ \A i \in DOMAIN sink : sink[i].duration >= 0
    /\ panicked = 0 => Len(sink) = returned

\* Two calls have returned, the later one with an error, and time has passed
\* during one of them.
C2_Witness ==
    /\ Ended
    /\ last.out \in Errors
    /\ returned = 2
    /\ Len(sink) = 2
    /\ \E i \in DOMAIN sink : sink[i].duration > 0

C4_LabelFailureNeverFailsCall ==
    (Ended /\ last.wres \in Results /\ (last.arg = Nil \/ last.exitGV = EmptyGV)) =>
        /\ last.out = last.wres
        /\ Cardinality(ObsOf(last.id)) = 1

\* C5: the verb of every Observation is the fixed name of the operation that
\* wrote it, and two Observations with the same verb come from the same
\* operation.
C5_VerbIsOperationName ==
    /\ \A i \in DOMAIN sink :
         /\ InvOf(sink[i].call) # {}
         /\ sink[i].labels.verb = FixedName(OpOf(sink[i].call))
    /\ \A i, j \in DOMAIN sink :
         sink[i].labels.verb = sink[j].labels.verb
            => OpOf(sink[i].call) = OpOf(sink[j].call)

\* A read through the cache and a read through the client have both been
\* observed.
C5_Witness ==
    \E i, j \in DOMAIN sink :
        /\ OpOf(sink[i].call) = <<"cache", "Get">>
        /\ OpOf(sink[j].call) = <<"client", "Get">>

CreatePodEnded ==
    /\ Ended
    /\ last.target = "client"
    /\ last.method = "Create"
    /\ last.arg = "pod"

CreatePodDelegatedOnce ==
    /\ Cardinality(InvOf(last.id)) = 1
    /\ \A k \in InvOf(last.id) :
         wlog[k] = [call |-> last.id, target |-> "client",
                    method |-> "Create", obj |-> "pod"]

C7_StatusAccessorUntimed ==
    /\ started = 0 => (sink = <<>> /\ wlog = <<>>)
    /\ (Ended /\ last.target = "status") =>
          /\ Cardinality(ObsOf(last.id)) = 1
          /\ Cardinality(InvOf(last.id)) = 1
          /\ \A k \in InvOf(last.id) :
               wlog[k].target = "status" /\ wlog[k].obj = last.arg

\* C8: within a call the timer is started on entry; the wrapped method is
\* then invoked once, with the caller's argument; no Observation is written
\* for the call while the wrapped method has not been invoked or is running;
\* and a call that has returned has been delegated once and observed once.
C8_CallOrder ==
    /\ \A s \in Slots :
         LET c == calls[s] IN
         /\ c.pc # "idle" => c.cb.begin = c.enteredAt
         /\ c.pc = "started" => (InvOf(c.id) = {} /\ ObsOf(c.id) = {})
         /\ c.pc \in {"delegated", "unwinding"} =>
              /\ ObsOf(c.id) = {}
              /\ Cardinality(InvOf(c.id)) = 1
              /\ \A k \in InvOf(c.id) :
                   wlog[k] = [call |-> c.id, target |-> c.target,
                              method |-> c.method, obj |-> c.arg]
    /\ (Ended /\ last.out \in Results) =>
         /\ Cardinality(ObsOf(last.id)) = 1
         /\ Cardinality(InvOf(last.id)) = 1
         /\ \A k \in InvOf(last.id) : wlog[k].obj = last.arg

\* An Update has returned an error to its caller while another call is still
\* inside the wrapped method.
C8_Witness ==
    /\ Ended
    /\ last.method = "Update"
    /\ last.out = "conflict"
    /\ \E s \in Slots : calls[s].pc = "delegated"

\* C9: the Observation a call writes is measured from the time that call was
\* entered and carries that call's verb and object labels; the callback
\* leaves every other call in flight as it was; and when every call entered
\* has returned there are as many Observations as calls.
C9_OwnTimerHandle ==
    [][\A s \in Slots :
         (calls[s].pc = "unwinding" /\ calls'[s].pc = "idle") =>
            /\ \A t \in Slots \ {s} : calls'[t] = calls[t]
            /\ calls[s].arg # Nil =>
                 /\ Len(sink') = Len(sink) + 1
                 /\ sink'[Len(sink')].call = calls[s].id
                 /\ sink'[Len(sink')].duration = now - calls[s].enteredAt
                 /\ sink'[Len(sink')].labels.verb =
                       FixedName(<<calls[s].target, calls[s].method>>)
                 /\ sink'[Len(sink')].labels.apiVersion =
                       GVString(gvk[calls[s].arg])
            /\ returned' = started => Len(sink') = started
      ]_vars

\* Two calls overlap: the one entered later, at time 1, has ended at once and
\* written a duration of 0, while the one entered at time 0 is still unwinding.
C9_Witness ==
    /\ Ended
    /\ last.id = 2
    /\ now = 1
    /\ \E i \in ObsOf(2) : sink[i].duration = 0
    /\ \E s \in Slots :
          /\ calls[s].pc = "unwinding"
          /\ calls[s].id = 1
          /\ calls[s].enteredAt = 0

\* C10: when the wrapped method panics, the call writes exactly one
\* Observation and the caller sees that same panic.
C10_PanicStillObserved ==
    (Ended /\ last.wres = PanicWrapped) =>
        /\ last.out = PanicWrapped
        /\ Cardinality(ObsOf(last.id)) = 1
====
